---- MODULE Spec2Model ----
(***************************************************************************)
(* SaludGo (src/app.py): the appointment admission subsystem.              *)
(*                                                                         *)
(* Every HTTP request is served by a worker with its own sqlite3           *)
(* connection (get_db, one connection per application context).  The       *)
(* connection is in Python's default deferred mode: a SELECT runs outside  *)
(* any transaction and sees the committed rows; the first INSERT opens a   *)
(* transaction and takes the database write lock, which commit() releases. *)
(* A connection that cannot take the write lock within the connection's    *)
(* timeout raises sqlite3.OperationalError ("database is locked").         *)
(*                                                                         *)
(* Of the appointments columns the model keeps id, user_id, fecha and      *)
(* estado; hora, tipo, lugar and motivo are copied from the form and read  *)
(* by no decision of the handlers modelled here.                           *)
(***************************************************************************)
EXTENDS Integers, Sequences, FiniteSets, TLC

\* ------------------------------------------------------------ schema ----
\* SCHEMA_SQL, the columns the model keeps.  Every record of the model lists
\* its fields in the order the names first appear here.
\* a row of users; password_hash is a text (see generate_password_hash below);
\* a NULL email is written "" (the code reads the column by truth value only)
UserRow ==
    [id : Nat, username : STRING, email : STRING,
     password_hash : STRING \X STRING, role : STRING]
\* a row of appointments; fecha is a text (see Str below)
AppointmentRow == [id : Nat, user_id : Nat, fecha : STRING \X Nat, estado : STRING]
\* a request: the form fields, the route and the session's user
Request ==
    [user_id : Nat, fecha : STRING \X Nat, estado : STRING, handler : STRING, uid : Nat]
\* the variables render_template hands to mis_citas.html, those read here
Page == [disabled_dates : SUBSET (STRING \X Nat), max_per_day : Nat]
\* the fields of the account forms (admin, perfil, register, forgot, reset)
AccountForm ==
    [id : Nat, username : STRING, email : STRING, role : STRING,
     what : STRING, password : STRING, token : Nat, confirm : STRING]
\* a row of password_resets
ResetRow == [user_id : Nat, token : Nat, used : {0, 1}]
\* the columns of CREATE TABLE appointments
AppointmentColumns ==
    {"id", "user_id", "fecha", "hora", "tipo", "lugar", "motivo", "estado", "created_at"}

\* ------------------------------------------------------------ bounds ----
NumWorkers == 2
MaxDay == 1
MaxRequests == 3

\* `horizon = today + timedelta(days=30)`
HORIZON_DAYS == 30

Workers == 1..NumWorkers
\* Dates are counted in days from 2025-10-01 (day 0); date.today() runs
\* through 0..MaxDay.
Days == 0..MaxDay

\* ------------------------------------------------------ configuration ----
\* int(os.environ.get("MAX_APPOINTMENTS_PER_DAY", 10)): the deployment's value
MAX_APPOINTMENTS_PER_DAY == 2
\* os.environ.get("ADMIN_EMAIL", "guillermonieto.200391@gmail.com")
ADMIN_EMAIL == "guillermonieto.200391@gmail.com"

\* ------------------------------------------------------------ values ----
\* Python None for a parsed date, and for the COUNT(*) not yet read
None == -1
\* Form strings that carry a date: "iso" is YYYY-MM-DD zero padded, "loose"
\* is the same date without zero padding (2025-1-5), "pad" is an iso string
\* with surrounding blanks, "bad" is any other non-empty text, "empty" is a
\* missing or empty field.  d is the day the text denotes: Str("iso", 1) is
\* "2025-10-02" and Str("loose", 1) is "2025-10-2".
Str(k, d) == <<k, d>>
Kind(s) == s[1]
Day(s) == s[2]
EmptyStr == Str("empty", 0)
BadStr == Str("bad", 0)
\* SQL NULL in the fecha column
NULL == Str("null", 0)

FechaInputs ==
    {EmptyStr, BadStr, Str("loose", 1), Str("pad", 1)} \cup {Str("iso", d) : d \in Days}
EstadoInputs == {""}
\* request.form.get("user_id"): 0 is a missing field
UserIdInputs == {0, 2}

\* ------------------------------------------------------------- users ----
\* a request that posts no account form
NoForm ==
    [id |-> 0, username |-> "", email |-> "", role |-> "", what |-> "",
     password |-> "", token |-> 0, confirm |-> ""]
\* werkzeug's generate_password_hash: a salted hash, a text that is not the
\* password
generate_password_hash(p) == <<"pbkdf2", p>>
\* The accounts at start: the default admin of init_db and one registered
\* account without an address (auth_register stores `email or None`).
UserIds == {1, 2}
\* the row of an account as it was created
UserById(i) ==
    IF i = 1 THEN [id |-> 1, username |-> "admin", email |-> "admin@saludgo.local",
                   password_hash |-> generate_password_hash("admin123"),
                   role |-> "admin"]
             ELSE [id |-> 2, username |-> "ana", email |-> "",
                   password_hash |-> generate_password_hash("ana12345"),
                   role |-> "user"]
\* current_user(): SELECT * FROM users WHERE id=session["user_id"], as the set
\* of the rows found; uid 0 is a session without user_id
current_user(rows, uid) == {u \in rows : u.id = uid}
\* mutant: every request counts as logged in
login_passes_always(rows, uid) == TRUE
\* login_required lets the view run: `if not u` redirects
login_passes(rows, uid) == current_user(rows, uid) # {}
\* admin_required lets the view run: `if not u or u["role"] != "admin"` redirects
admin_passes(rows, uid) == \E u \in current_user(rows, uid) : u.role = "admin"
\* init_db, run before every request: the default admin is inserted when no
\* account is named "admin"; seq is the AUTOINCREMENT sequence of users
init_db(rows, seq) ==
    IF \E u \in rows : u.username = "admin" THEN rows
    ELSE rows \cup {[id |-> seq + 1, username |-> "admin",
                     email |-> "admin@saludgo.local",
                     password_hash |-> generate_password_hash("admin123"),
                     role |-> "admin"]}
init_db_seq(rows, seq) ==
    IF \E u \in rows : u.username = "admin" THEN seq ELSE seq + 1
\* mutant: the column carries no UNIQUE constraint
username_unique_absent(rows, i, name) == TRUE
\* `username TEXT UNIQUE NOT NULL`: the row with id i may take the name
username_unique(rows, i, name) == \A u \in rows : u.username = name => u.id = i
\* str.strip() on the texts the account forms post
strip(s) == IF s = " " THEN "" ELSE IF s = " eva" THEN "eva" ELSE s
\* UPDATE users SET username=?, email=? WHERE id=?
update_user(rows, i, name, mail) ==
    {IF u.id = i THEN [u EXCEPT !.username = name, !.email = mail] ELSE u : u \in rows}
\* UPDATE users SET role=? WHERE id=?
update_role(rows, i, r) ==
    {IF u.id = i THEN [u EXCEPT !.role = r] ELSE u : u \in rows}
\* the form inputs of the account views
UsernameInputs == {" ", "admin", " eva"}
EmailInputs == {""}
PasswordInputs == {"", "eva12345"}
RoleInputs == {"admin", "user", "root"}
IdInputs == {0, 1, 2}
LoginSessions == {0, 1, 2}
\* the `identifier` field of auth_forgot, posted in the form's username field:
\* blank, an address, a username without address, an unknown name
IdentifierInputs == {" ", "admin@saludgo.local", "ana", "eve"}
\* the tokens in the URLs of reset_password: secrets.token_urlsafe gives every
\* row of password_resets a token of its own, written as the row's id
TokenInputs == {1, 2}
\* the password and confirm fields of reset_password
ResetPasswordInputs ==
    {<<"eva12", "eva12">>, <<"eva12345", "eva12345">>, <<"admin456", "admin456">>,
     <<"eva12345", "admin456">>}
\* len(p1) < 6 on the passwords above
TooShort(p) == p \in {"", "eva12"}
\* UPDATE users SET password_hash=? WHERE id=?
update_password(rows, i, p) ==
    {IF u.id = i THEN [u EXCEPT !.password_hash = generate_password_hash(p)] ELSE u :
        u \in rows}
\* the SELECT of reset_password: the rows of password_resets with the token,
\* joined with their user, as the set of the row ids found
reset_rows(resets, rows, t) ==
    {k \in 1..Len(resets) : resets[k].token = t /\ current_user(rows, resets[k].user_id) # {}}
\* The sessions that post the booking form of mis_citas, as <<session user,
\* estado field, user_id field>>.  The form has no estado and no user_id
\* field: user 1 posts it as it is, user 2 adds both, naming another status and
\* user 1 as owner.  Session user 0 is a client that has not logged in.
BookSessions == {<<1, "", 0>>, <<2, "Cancelada", 1>>, <<0, "", 0>>}
\* the sessions that post the administrative forms: the administrator and an
\* ordinary user
AdminSessions == {1, 2}

\* ----------------------------------------------------- pure functions ----
\* mutant: a parser that strips surrounding blanks before parsing
parse_date_stripping(s) ==
    IF Kind(s) \in {"iso", "loose", "pad"} THEN Day(s) ELSE None
\* dt.strptime(s, "%Y-%m-%d").date(), None on any exception
parse_date(s) == IF Kind(s) \in {"iso", "loose"} THEN Day(s) ELSE None
\* mutant: only dates before yesterday count as past
IsPastBeforeYesterday(f, t) == f < t - 1
\* the past-date test of mis_citas: `if fecha < date.today()` rejects
IsPast(f, t) == f < t
\* date.isoformat()
isoformat(d) == Str("iso", d)
\* (form value or "").strip() or None
strip_or_none(s) ==
    IF Kind(s) = "empty" THEN NULL
    ELSE IF Kind(s) = "pad" THEN Str("iso", Day(s))
    ELSE s

\* The place of a fecha text in sqlite's text order (BINARY collation), as an
\* integer: the iso text of day k is at 2k.  "2025-10-2" is a prefix of
\* "2025-10-20".."2025-10-29" and follows every "2025-10-0x" and "2025-10-1x",
\* so the loose text of day-of-month m sits just below the iso text of
\* day-of-month 10m.  A leading blank sorts before every digit, a text of
\* letters after every digit.
TextKey(s) ==
    IF Kind(s) = "iso" THEN 2 * Day(s)
    ELSE IF Kind(s) = "loose" THEN 2 * (10 * (Day(s) + 1) - 1) - 1
    ELSE IF Kind(s) \in {"pad", "empty"} THEN 0 - 1
    ELSE 2 * (MaxDay + HORIZON_DAYS) + 1
\* `fecha BETWEEN ? AND ?` on the text column; NULL BETWEEN is not true
TextBetween(s, lo, hi) ==
    /\ Kind(s) # "null"
    /\ TextKey(lo) <= TextKey(s)
    /\ TextKey(s) <= TextKey(hi)

RECURSIVE CountRows(_, _)
CountRows(rows, f) ==
    IF rows = <<>> THEN 0
    ELSE (IF Head(rows).fecha = f THEN 1 ELSE 0) + CountRows(Tail(rows), f)
\* SELECT COUNT(*) FROM appointments WHERE fecha=?
CountByDate(rows, f) == CountRows(rows, f)

\* `horizon = today + timedelta(days=30)`
Horizon(t) == t + HORIZON_DAYS
\* SELECT fecha, COUNT(*) AS n FROM appointments WHERE fecha BETWEEN ? AND ?
\* GROUP BY fecha, with today.isoformat() and horizon.isoformat(): the fecha
\* values of the groups
GroupsBetween(rows, lo, hi) ==
    {rows[i].fecha : i \in {j \in 1..Len(rows) : TextBetween(rows[j].fecha, lo, hi)}}
\* disabled_dates = [r["fecha"] for r in rows if r["n"] >= MAX_PER_DAY]
DisabledDates(rows, t) ==
    {f \in GroupsBetween(rows, isoformat(t), isoformat(Horizon(t))) :
        CountByDate(rows, f) >= MAX_APPOINTMENTS_PER_DAY}

\* sqlite prepares INSERT INTO appointments(cols) only if every column exists;
\* otherwise execute raises sqlite3.OperationalError before any lock is taken
StatementAccepted(cols) == cols \subseteq AppointmentColumns

\* mutant: `>` for `>=`, one booking too many
CapacityFullStrict(total) == total > MAX_APPOINTMENTS_PER_DAY
\* mutant: rejects one booking early
CapacityFullEarly(total) == total + 1 >= MAX_APPOINTMENTS_PER_DAY
\* the capacity test of mis_citas: `if total >= MAX_PER_DAY` rejects
CapacityFull(total) == total >= MAX_APPOINTMENTS_PER_DAY

\* --------------------------------------------------------------- state ----
VARIABLES
    today,          \* date.today()
    appointments,   \* committed rows of the appointments table, in id order
    wlock,          \* worker whose connection holds the write lock, 0 if none
    txn,            \* txn[w]: rows inserted by w's open transaction
    nreq,           \* requests received so far
    pc,             \* pc[w]: position of worker w in its handler
    req,            \* req[w]: the request worker w is serving
    fecha,          \* fecha[w]: local `fecha` of mis_citas (parsed date)
    total,          \* total[w]: local `total` of mis_citas (COUNT(*) read)
    lastrowid,      \* lastrowid[w]: id of the row w's connection inserted, 0 if none
    mails,          \* mails[w]: messages send_email delivered for this request
    result,         \* result[w]: outcome of the request
    checks,         \* checks[d]: capacity counts read so far for day d
    page,           \* the availability data of the page GET /mis_citas rendered
                    \* last; at start the page of the empty table
    users,          \* committed rows of the users table
    users_seq,      \* sqlite_sequence of users: the highest id given so far
    form,           \* form[w]: the account form worker w's request posted
    password_resets \* committed rows of password_resets, in id order

vars == <<today, appointments, wlock, txn, nreq, pc, req, fecha, total,
          lastrowid, mails, result, checks, page, users, users_seq, form,
          password_resets>>

Init ==
    /\ today = 0
    /\ appointments = <<>>
    /\ wlock = 0
    /\ txn = [w \in Workers |-> <<>>]
    /\ nreq = 0
    /\ pc = [w \in Workers |-> "idle"]
    /\ req = [w \in Workers |->
                [user_id |-> 0, fecha |-> EmptyStr, estado |-> "",
                 handler |-> "none", uid |-> 0]]
    /\ fecha = [w \in Workers |-> None]
    /\ total = [w \in Workers |-> None]
    /\ lastrowid = [w \in Workers |-> 0]
    /\ mails = [w \in Workers |-> {}]
    /\ result = [w \in Workers |-> "none"]
    /\ checks = [d \in Days |-> 0]
    /\ page = [disabled_dates |-> {}, max_per_day |-> MAX_APPOINTMENTS_PER_DAY]
    /\ users = {UserById(i) : i \in UserIds}
    /\ users_seq = 2
    /\ form = [w \in Workers |-> NoForm]
    /\ password_resets = <<>>

TypeOK ==
    /\ today \in Days
    /\ appointments \in Seq(AppointmentRow)
    /\ wlock \in {0} \cup Workers
    /\ \A w \in Workers : txn[w] \in Seq(AppointmentRow) /\ Len(txn[w]) <= 1
    /\ nreq \in 0..MaxRequests
    /\ req \in [Workers -> Request]
    /\ \A w \in Workers : fecha[w] \in Days \cup {None}
    /\ \A w \in Workers : total[w] \in Nat \cup {None}
    /\ \A w \in Workers : lastrowid[w] \in Nat
    /\ \A w \in Workers : mails[w] \subseteq {"owner", "admin"}
    /\ checks \in [Days -> Nat]
    /\ page \in Page
    /\ users \subseteq UserRow
    /\ users_seq \in Nat
    /\ form \in [Workers -> AccountForm]
    /\ password_resets \in Seq(ResetRow)

\* ------------------------------------------------------------ helpers ----
\* a worker takes a new request: fresh application context, fresh
\* connection, ensure_db runs init_db; the view starts at `start`, or the
\* request ends at once with the outcome `out` of the decorator that
\* redirected it
BeginForm(w, r, f, start, out) ==
    /\ pc[w] \in {"idle", "done"}
    /\ nreq < MaxRequests
    /\ nreq' = nreq + 1
    /\ users' = init_db(users, users_seq)
    /\ users_seq' = init_db_seq(users, users_seq)
    /\ req' = [req EXCEPT ![w] = r]
    /\ pc' = [pc EXCEPT ![w] = start]
    /\ fecha' = [fecha EXCEPT ![w] = None]
    /\ total' = [total EXCEPT ![w] = None]
    /\ lastrowid' = [lastrowid EXCEPT ![w] = 0]
    /\ mails' = [mails EXCEPT ![w] = {}]
    /\ result' = [result EXCEPT ![w] = out]
    /\ form' = [form EXCEPT ![w] = f]
    /\ UNCHANGED <<today, appointments, wlock, txn, checks, page, password_resets>>

\* a request of the appointment handlers: no account form
Begin(w, r, start, out) == BeginForm(w, r, NoForm, start, out)

\* the request of an account handler: route h, session user a
AccountRequest(h, a) ==
    [user_id |-> 0, fecha |-> EmptyStr, estado |-> "", handler |-> h, uid |-> a]
\* the decorator of each account view
AdminViews == {"admin_delete", "admin_users_role", "admin_users_update"}
LoginViews == {"perfil_update"}
\* where a request of view h goes once ensure_db has returned: into the view,
\* or out with the decorator's redirect; as <<position, outcome>>
Enter(h, rows, a) ==
    IF h \in AdminViews /\ ~admin_passes(rows, a) THEN <<"done", "Forbidden">>
    ELSE IF h \in LoginViews /\ ~login_passes(rows, a) THEN <<"done", "LoginRequired">>
    ELSE <<h, "none">>
\* a worker takes a request of an account view with form f.  init_db's
\* SELECT and INSERT of the default admin are two statements: when no
\* account is named "admin" the worker goes on to the INSERT (init_db_insert)
\* in a later step.  A view the decorator does not enter reads no form.
BeginAccount(w, h, a, f) ==
    /\ pc[w] \in {"idle", "done"}
    /\ nreq < MaxRequests
    /\ nreq' = nreq + 1
    /\ req' = [req EXCEPT ![w] = AccountRequest(h, a)]
    /\ IF \E u \in users : u.username = "admin"
       THEN /\ pc' = [pc EXCEPT ![w] = Enter(h, users, a)[1]]
            /\ result' = [result EXCEPT ![w] = Enter(h, users, a)[2]]
            /\ form' = [form EXCEPT ![w] =
                          IF Enter(h, users, a)[1] = "done" THEN NoForm ELSE f]
       ELSE /\ pc' = [pc EXCEPT ![w] = "init_db"]
            /\ result' = [result EXCEPT ![w] = "none"]
            /\ form' = [form EXCEPT ![w] = f]
    /\ fecha' = [fecha EXCEPT ![w] = None]
    /\ total' = [total EXCEPT ![w] = None]
    /\ lastrowid' = [lastrowid EXCEPT ![w] = 0]
    /\ mails' = [mails EXCEPT ![w] = {}]
    /\ UNCHANGED <<today, appointments, wlock, txn, checks, page, users,
                   users_seq, password_resets>>

\* the handler returns (or raises) with outcome r
Finish(w, r) ==
    /\ pc' = [pc EXCEPT ![w] = "done"]
    /\ result' = [result EXCEPT ![w] = r]

\* db.execute("INSERT INTO appointments ..."): opens the transaction, takes
\* the write lock and adds the row with the next AUTOINCREMENT id
DbInsert(w, user_id, f, estado) ==
    /\ wlock = 0
    /\ wlock' = w
    /\ txn' = [txn EXCEPT ![w] =
                 <<[id |-> Len(appointments) + 1, user_id |-> user_id,
                    fecha |-> f, estado |-> estado]>>]
    /\ lastrowid' = [lastrowid EXCEPT ![w] = Len(appointments) + 1]

\* db.commit(): the transaction's rows become visible, the lock is released
DbCommit(w) ==
    /\ wlock = w
    /\ appointments' = appointments \o txn[w]
    /\ txn' = [txn EXCEPT ![w] = <<>>]
    /\ wlock' = 0

\* ------------------------------------------------- POST /mis_citas ----
\* @login_required redirects before the view reads the form: for a session
\* it turns away, one form that the view would admit stands for all
mc_request(w) ==
    \E x \in BookSessions :
        IF login_passes(init_db(users, users_seq), x[1])
        THEN \E s \in FechaInputs :
                Begin(w, [user_id |-> x[3], fecha |-> s, estado |-> x[2],
                          handler |-> "mis_citas", uid |-> x[1]],
                      "mc_validate", "none")
        ELSE Begin(w, [user_id |-> x[3], fecha |-> isoformat(MaxDay),
                       estado |-> x[2], handler |-> "mis_citas", uid |-> x[1]],
                   "done", "LoginRequired")

\* parse_date, `if not fecha`, `if fecha < date.today()`
mc_validate(w) ==
    /\ pc[w] = "mc_validate"
    /\ LET f == parse_date(req[w].fecha) IN
        /\ fecha' = [fecha EXCEPT ![w] = f]
        /\ IF f = None THEN Finish(w, "InvalidDate")
           ELSE IF IsPast(f, today) THEN Finish(w, "PastDate")
           ELSE /\ pc' = [pc EXCEPT ![w] = "mc_count"]
                /\ UNCHANGED result
    /\ UNCHANGED <<today, appointments, wlock, txn, nreq, req, total,
                   lastrowid, mails, checks, page,
                   users, users_seq, form, password_resets>>

\* mutant: the capacity branch flashes its message and forgets to return
mc_count_no_return(w) ==
    /\ pc[w] = "mc_count"
    /\ LET n == CountByDate(appointments, isoformat(fecha[w])) IN
        /\ total' = [total EXCEPT ![w] = n]
        /\ checks' = [checks EXCEPT ![fecha[w]] = @ + 1]
        /\ pc' = [pc EXCEPT ![w] = "mc_insert"]
        /\ result' = [result EXCEPT ![w] =
                        IF CapacityFull(n) THEN "CapacityExceeded" ELSE @]
    /\ UNCHANGED <<today, appointments, wlock, txn, nreq, req, fecha,
                   lastrowid, mails, page,
                   users, users_seq, form, password_resets>>

\* mutant: the capacity decision is taken from the last rendered page
mc_count_cached(w) ==
    /\ pc[w] = "mc_count"
    /\ total' = [total EXCEPT ![w] = CountByDate(appointments, isoformat(fecha[w]))]
    /\ checks' = [checks EXCEPT ![fecha[w]] = @ + 1]
    /\ IF isoformat(fecha[w]) \in page.disabled_dates
       THEN Finish(w, "CapacityExceeded")
       ELSE /\ pc' = [pc EXCEPT ![w] = "mc_insert"]
            /\ UNCHANGED result
    /\ UNCHANGED <<today, appointments, wlock, txn, nreq, req, fecha,
                   lastrowid, mails, page,
                   users, users_seq, form, password_resets>>

\* SELECT COUNT(*) ... WHERE fecha=?, `if total >= MAX_PER_DAY`
mc_count(w) ==
    /\ pc[w] = "mc_count"
    /\ LET n == CountByDate(appointments, isoformat(fecha[w])) IN
        /\ total' = [total EXCEPT ![w] = n]
        /\ checks' = [checks EXCEPT ![fecha[w]] = @ + 1]
        /\ IF CapacityFull(n) THEN Finish(w, "CapacityExceeded")
           ELSE /\ pc' = [pc EXCEPT ![w] = "mc_insert"]
                /\ UNCHANGED result
    /\ UNCHANGED <<today, appointments, wlock, txn, nreq, req, fecha,
                   lastrowid, mails, page,
                   users, users_seq, form, password_resets>>

\* mutant: the row takes the status and the owner the form names
mc_insert_from_form(w) ==
    /\ pc[w] = "mc_insert"
    /\ DbInsert(w, IF req[w].user_id = 0 THEN req[w].uid ELSE req[w].user_id,
                isoformat(fecha[w]),
                IF req[w].estado = "" THEN "Agendada" ELSE req[w].estado)
    /\ pc' = [pc EXCEPT ![w] = "mc_commit"]
    /\ UNCHANGED <<today, appointments, nreq, req, fecha, total, mails,
                   result, checks, page,
                   users, users_seq, form, password_resets>>

\* db.execute(INSERT ...) with estado = "Agendada"
mc_insert(w) ==
    /\ pc[w] = "mc_insert"
    /\ DbInsert(w, req[w].uid, isoformat(fecha[w]), "Agendada")
    /\ pc' = [pc EXCEPT ![w] = "mc_commit"]
    /\ UNCHANGED <<today, appointments, nreq, req, fecha, total, mails,
                   result, checks, page,
                   users, users_seq, form, password_resets>>

\* the INSERT finds the write lock held for longer than the timeout:
\* sqlite3.OperationalError propagates out of the handler
mc_insert_busy(w) ==
    /\ pc[w] = "mc_insert"
    /\ wlock \notin {0, w}
    /\ Finish(w, "Busy")
    /\ UNCHANGED <<today, appointments, wlock, txn, nreq, req, fecha, total,
                   lastrowid, mails, checks, page,
                   users, users_seq, form, password_resets>>

\* mutant: the notifications are sent before the commit
mc_commit_deferred(w) ==
    /\ pc[w] = "mc_commit"
    /\ pc' = [pc EXCEPT ![w] = "mc_mail_owner"]
    /\ UNCHANGED <<today, appointments, wlock, txn, nreq, req, fecha, total,
                   lastrowid, mails, result, checks, page,
                   users, users_seq, form, password_resets>>

\* db.commit()
mc_commit(w) ==
    /\ pc[w] = "mc_commit"
    /\ DbCommit(w)
    /\ pc' = [pc EXCEPT ![w] = "mc_mail_owner"]
    /\ UNCHANGED <<today, nreq, req, fecha, total, lastrowid, mails, result,
                   checks, page,
                   users, users_seq, form, password_resets>>

\* A storage fault (disk full, I/O error) makes db.execute(INSERT ...) raise:
\* the statement has changed nothing and the exception leaves the handler
mc_insert_fails(w) ==
    /\ pc[w] = "mc_insert"
    /\ Finish(w, "PersistenceFailure")
    /\ UNCHANGED <<today, appointments, wlock, txn, nreq, req, fecha, total,
                   lastrowid, mails, checks, page,
                   users, users_seq, form, password_resets>>

\* mutant: the failed commit leaves its row in the table
mc_commit_fails_partial(w) ==
    /\ pc[w] = "mc_commit"
    /\ DbCommit(w)
    /\ Finish(w, "PersistenceFailure")
    /\ UNCHANGED <<today, nreq, req, fecha, total, lastrowid, mails, checks, page,
                   users, users_seq, form, password_resets>>

\* A storage fault makes db.commit() raise: the exception leaves the handler
\* and close_db closes the connection, which rolls the open transaction back
\* and releases the write lock
mc_commit_fails(w) ==
    /\ pc[w] = "mc_commit"
    /\ wlock = w
    /\ txn' = [txn EXCEPT ![w] = <<>>]
    /\ wlock' = 0
    /\ Finish(w, "PersistenceFailure")
    /\ UNCHANGED <<today, appointments, nreq, req, fecha, total, lastrowid,
                   mails, checks, page,
                   users, users_seq, form, password_resets>>

\* `if u["email"]: send_email(u["email"], ...)`; smtplib may raise
mc_mail_owner(w) ==
    /\ pc[w] = "mc_mail_owner"
    /\ IF UserById(req[w].uid).email = ""
       THEN /\ pc' = [pc EXCEPT ![w] = "mc_mail_admin"]
            /\ UNCHANGED <<mails, result>>
       ELSE \/ /\ mails' = [mails EXCEPT ![w] = @ \cup {"owner"}]
               /\ pc' = [pc EXCEPT ![w] = "mc_mail_admin"]
               /\ UNCHANGED result
            \/ /\ Finish(w, "Error")
               /\ UNCHANGED mails
    /\ UNCHANGED <<today, appointments, wlock, txn, nreq, req, fecha, total,
                   lastrowid, checks, page,
                   users, users_seq, form, password_resets>>

\* mutant: a failed send deletes the appointment again
mc_mail_admin_unwinding(w) ==
    /\ pc[w] = "mc_mail_admin"
    /\ \/ /\ mails' = [mails EXCEPT ![w] = @ \cup {"admin"}]
          /\ Finish(w, "Admitted")
          /\ UNCHANGED appointments
       \/ /\ Finish(w, "Error")
          /\ appointments' = SelectSeq(appointments, LAMBDA r : r.id # lastrowid[w])
          /\ UNCHANGED mails
    /\ UNCHANGED <<today, wlock, txn, nreq, req, fecha, total, lastrowid, checks, page,
                   users, users_seq, form, password_resets>>

\* `if ADMIN_EMAIL: send_email(ADMIN_EMAIL, ...)`, then the redirect
mc_mail_admin(w) ==
    /\ pc[w] = "mc_mail_admin"
    /\ IF ADMIN_EMAIL = ""
       THEN /\ Finish(w, "Admitted")
            /\ UNCHANGED mails
       ELSE \/ /\ mails' = [mails EXCEPT ![w] = @ \cup {"admin"}]
               /\ Finish(w, "Admitted")
            \/ /\ Finish(w, "Error")
               /\ UNCHANGED mails
    /\ UNCHANGED <<today, appointments, wlock, txn, nreq, req, fecha, total,
                   lastrowid, checks, page,
                   users, users_seq, form, password_resets>>

\* ------------------------------------------------ POST /admin/citas ----
\* @admin_required redirects before the view reads the form
ac_request(w) ==
    \E a \in AdminSessions :
        IF admin_passes(init_db(users, users_seq), a)
        THEN \E uid \in UserIdInputs, s \in FechaInputs, e \in EstadoInputs :
                Begin(w, [user_id |-> uid, fecha |-> s, estado |-> e,
                          handler |-> "admin_citas", uid |-> a],
                      "ac_insert", "none")
        ELSE Begin(w, [user_id |-> 2, fecha |-> isoformat(MaxDay), estado |-> "",
                       handler |-> "admin_citas", uid |-> a],
                   "done", "Forbidden")

\* `if not user_id` returns; otherwise db.execute(INSERT ...) with the form's
\* user_id, `(fecha or "").strip() or None` and `estado or "Agendada"`
ac_insert(w) ==
    /\ pc[w] = "ac_insert"
    /\ IF req[w].user_id = 0
       THEN /\ Finish(w, "NoUser")
            /\ UNCHANGED <<wlock, txn, lastrowid>>
       ELSE /\ DbInsert(w, req[w].user_id, strip_or_none(req[w].fecha),
                        IF req[w].estado = "" THEN "Agendada" ELSE req[w].estado)
            /\ pc' = [pc EXCEPT ![w] = "ac_commit"]
            /\ UNCHANGED result
    /\ UNCHANGED <<today, appointments, nreq, req, fecha, total, mails, checks, page,
                   users, users_seq, form, password_resets>>

\* the INSERT times out on the write lock: OperationalError
ac_insert_busy(w) ==
    /\ pc[w] = "ac_insert"
    /\ req[w].user_id # 0
    /\ wlock \notin {0, w}
    /\ Finish(w, "Busy")
    /\ UNCHANGED <<today, appointments, wlock, txn, nreq, req, fecha, total,
                   lastrowid, mails, checks, page,
                   users, users_seq, form, password_resets>>

\* db.commit()
ac_commit(w) ==
    /\ pc[w] = "ac_commit"
    /\ DbCommit(w)
    /\ pc' = [pc EXCEPT ![w] = "ac_mail"]
    /\ UNCHANGED <<today, nreq, req, fecha, total, lastrowid, mails, result,
                   checks, page,
                   users, users_seq, form, password_resets>>

\* `if user and user["email"]: send_email(...)`, then the redirect
ac_mail(w) ==
    /\ pc[w] = "ac_mail"
    /\ IF \A u \in current_user(users, req[w].user_id) : u.email = ""
       THEN /\ Finish(w, "Created")
            /\ UNCHANGED mails
       ELSE \/ /\ mails' = [mails EXCEPT ![w] = @ \cup {"owner"}]
               /\ Finish(w, "Created")
            \/ /\ Finish(w, "Error")
               /\ UNCHANGED mails
    /\ UNCHANGED <<today, appointments, wlock, txn, nreq, req, fecha, total,
                   lastrowid, checks, page,
                   users, users_seq, form, password_resets>>

\* ------------------------------------- POST /admin/appointments/create ----
\* @admin_required redirects before the view reads the form
aac_request(w) ==
    \E a \in AdminSessions :
        IF admin_passes(init_db(users, users_seq), a)
        THEN \E uid \in UserIdInputs, s \in FechaInputs, e \in EstadoInputs :
                Begin(w, [user_id |-> uid, fecha |-> s, estado |-> e,
                          handler |-> "admin_appointments_create", uid |-> a],
                      "aac_insert", "none")
        ELSE Begin(w, [user_id |-> 2, fecha |-> isoformat(MaxDay), estado |-> "",
                       handler |-> "admin_appointments_create", uid |-> a],
                   "done", "Forbidden")

\* SELECT ... FROM users WHERE id=?, `if not u` returns; otherwise
\* db.execute("INSERT INTO appointments(user_id,fecha,hora,tipo,lugar,note,estado)")
aac_insert(w) ==
    /\ pc[w] = "aac_insert"
    /\ IF current_user(users, req[w].user_id) = {}
       THEN /\ Finish(w, "InvalidUser")
            /\ UNCHANGED <<wlock, txn, lastrowid>>
       ELSE IF StatementAccepted({"user_id", "fecha", "hora", "tipo", "lugar",
                                  "note", "estado"})
       THEN /\ DbInsert(w, req[w].user_id, strip_or_none(req[w].fecha),
                        IF req[w].estado = "" THEN "Agendada" ELSE req[w].estado)
            /\ pc' = [pc EXCEPT ![w] = "aac_commit"]
            /\ UNCHANGED result
       ELSE /\ Finish(w, "Error")
            /\ UNCHANGED <<wlock, txn, lastrowid>>
    /\ UNCHANGED <<today, appointments, nreq, req, fecha, total, mails, checks, page,
                   users, users_seq, form, password_resets>>

\* ------------------------------------------------ POST /admin/delete ----
\* the `what` fields posted to admin_delete
DeleteWhat == {"user", "service", ""}
\* @admin_required redirects before the view reads the form
admin_delete_request(w) ==
    /\ pc[w] \in {"idle", "done"}
    /\ \E a \in AdminSessions, what \in DeleteWhat, i \in UserIds :
           BeginAccount(w, "admin_delete", a, [NoForm EXCEPT !.id = i, !.what = what])

\* mutant: the DELETE takes the user's appointments with it
admin_delete_cascading(w) ==
    /\ pc[w] = "admin_delete"
    /\ wlock = 0
    /\ users' = {u \in users : u.id # form[w].id}
    /\ appointments' = SelectSeq(appointments, LAMBDA r : r.user_id # form[w].id)
    /\ Finish(w, "Deleted")
    /\ UNCHANGED <<today, wlock, txn, nreq, req, fecha, total, lastrowid, mails,
                   checks, page, users_seq, form, password_resets>>

\* the view: DELETE FROM services / campaigns / users WHERE id=?, then
\* commit; a user is not deleted by its own session; no statement touches
\* appointments
admin_delete(w) ==
    /\ pc[w] = "admin_delete"
    /\ IF form[w].what \in {"service", "campaign"}
       THEN /\ wlock = 0
            /\ Finish(w, "Deleted")
            /\ UNCHANGED users
       ELSE IF form[w].what = "user"
       THEN IF current_user(users, req[w].uid) = {}
            THEN /\ Finish(w, "Error")
                 /\ UNCHANGED users
            ELSE IF req[w].uid = form[w].id
            THEN /\ Finish(w, "SelfDelete")
                 /\ UNCHANGED users
            ELSE /\ wlock = 0
                 /\ users' = {u \in users : u.id # form[w].id}
                 /\ Finish(w, "Deleted")
       ELSE /\ Finish(w, "InvalidOperation")
            /\ UNCHANGED users
    /\ UNCHANGED <<today, appointments, wlock, txn, nreq, req, fecha, total,
                   lastrowid, mails, checks, page, users_seq, form,
                   password_resets>>

\* the DELETE times out on the write lock: OperationalError
admin_delete_busy(w) ==
    /\ pc[w] = "admin_delete"
    /\ form[w].what \in {"service", "campaign"}
       \/ (form[w].what = "user" /\ req[w].uid # form[w].id)
    /\ wlock \notin {0, w}
    /\ Finish(w, "Busy")
    /\ UNCHANGED <<today, appointments, wlock, txn, nreq, req, fecha, total,
                   lastrowid, mails, checks, page, users, users_seq, form,
                   password_resets>>

\* the INSERT of init_db when its SELECT found no account named "admin":
\* the default admin gets the next id; if another request has created the
\* account since, the UNIQUE constraint raises IntegrityError out of
\* ensure_db.  Then the decorator and the view.
init_db_insert(w) ==
    /\ pc[w] = "init_db"
    /\ wlock = 0
    /\ IF username_unique(users, 0, "admin")
       THEN /\ users' = init_db(users, users_seq)
            /\ users_seq' = init_db_seq(users, users_seq)
            /\ pc' = [pc EXCEPT ![w] =
                        Enter(req[w].handler, init_db(users, users_seq), req[w].uid)[1]]
            /\ result' = [result EXCEPT ![w] =
                        Enter(req[w].handler, init_db(users, users_seq), req[w].uid)[2]]
       ELSE /\ Finish(w, "Error")
            /\ UNCHANGED <<users, users_seq>>
    /\ UNCHANGED <<today, appointments, wlock, txn, nreq, req, fecha, total,
                   lastrowid, mails, checks, page, form, password_resets>>

\* --------------------------------------------- POST /auth/register ----
auth_register_request(w) ==
    /\ pc[w] \in {"idle", "done"}
    /\ \E n \in UsernameInputs, m \in EmailInputs, p \in PasswordInputs :
           BeginAccount(w, "auth_register", 0,
                        [NoForm EXCEPT !.username = n, !.email = m, !.password = p])

\* `if not u or not p` returns; INSERT INTO users ... role "user" and commit
\* inside try/except: an IntegrityError is flashed, not raised
auth_register(w) ==
    /\ pc[w] = "auth_register"
    /\ IF strip(form[w].username) = "" \/ form[w].password = ""
       THEN /\ Finish(w, "Missing")
            /\ UNCHANGED <<users, users_seq>>
       ELSE /\ wlock = 0
            /\ IF username_unique(users, 0, strip(form[w].username))
               THEN /\ users' = users \cup
                         {[id |-> users_seq + 1,
                           username |-> strip(form[w].username),
                           email |-> form[w].email,
                           password_hash |-> generate_password_hash(form[w].password),
                           role |-> "user"]}
                    /\ users_seq' = users_seq + 1
                    /\ Finish(w, "Registered")
               ELSE /\ Finish(w, "NotCreated")
                    /\ UNCHANGED <<users, users_seq>>
    /\ UNCHANGED <<today, appointments, wlock, txn, nreq, req, fecha, total,
                   lastrowid, mails, checks, page, form, password_resets>>

\* --------------------------------------------- POST /perfil/update ----
perfil_update_request(w) ==
    /\ pc[w] \in {"idle", "done"}
    /\ \E a \in LoginSessions, n \in UsernameInputs, m \in EmailInputs :
           BeginAccount(w, "perfil_update", a,
                        [NoForm EXCEPT !.username = n, !.email = m])

\* `if not username` returns; SELECT id FROM users WHERE username=? AND
\* id<>?: a row found returns "Ya existe"
perfil_update(w) ==
    /\ pc[w] = "perfil_update"
    /\ IF strip(form[w].username) = ""
       THEN Finish(w, "EmptyUsername")
       ELSE IF \E u \in users : /\ u.username = strip(form[w].username)
                                 /\ u.id # req[w].uid
       THEN Finish(w, "UsernameTaken")
       ELSE /\ pc' = [pc EXCEPT ![w] = "perfil_update_write"]
            /\ UNCHANGED result
    /\ UNCHANGED <<today, appointments, wlock, txn, nreq, req, fecha, total,
                   lastrowid, mails, checks, page, users, users_seq, form,
                   password_resets>>

\* UPDATE users SET username=?, email=? WHERE id=? and commit, outside any
\* try: an IntegrityError leaves the handler
perfil_update_write(w) ==
    /\ pc[w] = "perfil_update_write"
    /\ wlock = 0
    /\ IF username_unique(users, req[w].uid, strip(form[w].username))
       THEN /\ users' = update_user(users, req[w].uid, strip(form[w].username),
                                    form[w].email)
            /\ Finish(w, "Updated")
       ELSE /\ Finish(w, "Error")
            /\ UNCHANGED users
    /\ UNCHANGED <<today, appointments, wlock, txn, nreq, req, fecha, total,
                   lastrowid, mails, checks, page, users_seq, form,
                   password_resets>>

\* ------------------------------------------ POST /admin/users/update ----
admin_users_update_request(w) ==
    /\ pc[w] \in {"idle", "done"}
    /\ \E a \in AdminSessions, i \in IdInputs, n \in UsernameInputs, m \in EmailInputs :
           BeginAccount(w, "admin_users_update", a,
                        [NoForm EXCEPT !.id = i, !.username = n, !.email = m])

\* `if not uid` and `if not username` return; the SELECT that finds another
\* account of that name returns "Ya existe"
admin_users_update(w) ==
    /\ pc[w] = "admin_users_update"
    /\ IF form[w].id = 0
       THEN Finish(w, "MissingId")
       ELSE IF strip(form[w].username) = ""
       THEN Finish(w, "EmptyUsername")
       ELSE IF \E u \in users : /\ u.username = strip(form[w].username)
                                 /\ u.id # form[w].id
       THEN Finish(w, "UsernameTaken")
       ELSE /\ pc' = [pc EXCEPT ![w] = "admin_users_update_write"]
            /\ UNCHANGED result
    /\ UNCHANGED <<today, appointments, wlock, txn, nreq, req, fecha, total,
                   lastrowid, mails, checks, page, users, users_seq, form,
                   password_resets>>

\* UPDATE users SET username=?, email=? WHERE id=? and commit, inside
\* try/except: an IntegrityError is flashed
admin_users_update_write(w) ==
    /\ pc[w] = "admin_users_update_write"
    /\ wlock = 0
    /\ IF username_unique(users, form[w].id, strip(form[w].username))
       THEN /\ users' = update_user(users, form[w].id, strip(form[w].username),
                                    form[w].email)
            /\ Finish(w, "Updated")
       ELSE /\ Finish(w, "NotUpdated")
            /\ UNCHANGED users
    /\ UNCHANGED <<today, appointments, wlock, txn, nreq, req, fecha, total,
                   lastrowid, mails, checks, page, users_seq, form,
                   password_resets>>

\* -------------------------------------------- POST /admin/users/role ----
admin_users_role_request(w) ==
    /\ pc[w] \in {"idle", "done"}
    /\ \E a \in AdminSessions, i \in UserIds, r \in RoleInputs :
           BeginAccount(w, "admin_users_role", a, [NoForm EXCEPT !.id = i, !.role = r])

\* `if role not in ("admin", "user")` flashes; otherwise UPDATE users SET
\* role=? WHERE id=? and commit, whoever the account is
admin_users_role(w) ==
    /\ pc[w] = "admin_users_role"
    /\ IF form[w].role \notin {"admin", "user"}
       THEN /\ Finish(w, "InvalidRole")
            /\ UNCHANGED users
       ELSE /\ wlock = 0
            /\ users' = update_role(users, form[w].id, form[w].role)
            /\ Finish(w, "RoleUpdated")
    /\ UNCHANGED <<today, appointments, wlock, txn, nreq, req, fecha, total,
                   lastrowid, mails, checks, page, users_seq, form,
                   password_resets>>

\* ------------------------------------------------ POST /auth/forgot ----
auth_forgot_request(w) ==
    /\ pc[w] \in {"idle", "done"}
    /\ \E x \in IdentifierInputs :
           BeginAccount(w, "auth_forgot", 0, [NoForm EXCEPT !.username = x])

\* `if not identifier` returns; the SELECT by username or email; no account
\* and an account without address return; otherwise the token row is
\* inserted with used=0 and committed, and the link is mailed
auth_forgot(w) ==
    /\ pc[w] = "auth_forgot"
    /\ LET found == {u \in users : \/ u.username = strip(form[w].username)
                                   \/ u.email = strip(form[w].username)}
       IN IF strip(form[w].username) = ""
          THEN /\ Finish(w, "MissingIdentifier")
               /\ UNCHANGED <<password_resets, mails>>
          ELSE IF found = {}
          THEN /\ Finish(w, "Generic")
               /\ UNCHANGED <<password_resets, mails>>
          ELSE IF \A u \in found : u.email = ""
          THEN /\ Finish(w, "NoEmail")
               /\ UNCHANGED <<password_resets, mails>>
          ELSE /\ wlock = 0
               /\ \E u \in found :
                    password_resets' = Append(password_resets,
                        [user_id |-> u.id, token |-> Len(password_resets) + 1,
                         used |-> 0])
               /\ \/ /\ mails' = [mails EXCEPT ![w] = @ \cup {"owner"}]
                     /\ Finish(w, "Sent")
                  \/ /\ Finish(w, "Error")
                     /\ UNCHANGED mails
    /\ UNCHANGED <<today, appointments, wlock, txn, nreq, req, fecha, total,
                   lastrowid, checks, page, users, users_seq, form>>

\* --------------------------------------------- POST /reset/<token> ----
reset_password_request(w) ==
    /\ pc[w] \in {"idle", "done"}
    /\ \E t \in TokenInputs, p \in ResetPasswordInputs :
           BeginAccount(w, "reset_password", 0,
                        [NoForm EXCEPT !.password = p[1], !.token = t, !.confirm = p[2]])

\* the SELECT of the token's row and the checks of the view: no row, a row
\* that is used or older than five minutes, a password under six characters
\* and a confirmation that differs all return; the clock is not modelled,
\* any link may have expired
reset_password(w) ==
    /\ pc[w] = "reset_password"
    /\ IF reset_rows(password_resets, users, form[w].token) = {}
       THEN Finish(w, "InvalidLink")
       ELSE \/ Finish(w, "Expired")
            \/ /\ \A k \in reset_rows(password_resets, users, form[w].token) :
                     password_resets[k].used = 0
               /\ IF TooShort(form[w].password)
                  THEN Finish(w, "TooShort")
                  ELSE IF form[w].password # form[w].confirm
                  THEN Finish(w, "Mismatch")
                  ELSE /\ pc' = [pc EXCEPT ![w] = "reset_password_write"]
                       /\ UNCHANGED result
    /\ UNCHANGED <<today, appointments, wlock, txn, nreq, req, fecha, total,
                   lastrowid, mails, checks, page, users, users_seq, form,
                   password_resets>>

\* UPDATE users SET password_hash=? WHERE id=row["user_id"], UPDATE
\* password_resets SET used=1 WHERE id=row["id"], commit: the row is the one
\* the SELECT read, its used flag is not read again
reset_password_write(w) ==
    /\ pc[w] = "reset_password_write"
    /\ wlock = 0
    /\ users' = update_password(users, password_resets[form[w].token].user_id,
                                form[w].password)
    /\ password_resets' = [password_resets EXCEPT ![form[w].token].used = 1]
    /\ Finish(w, "PasswordChanged")
    /\ UNCHANGED <<today, appointments, wlock, txn, nreq, req, fecha, total,
                   lastrowid, mails, checks, page, users_seq, form>>

\* -------------------------------------------------- GET /mis_citas ----
\* The availability part of the page: one SELECT over the committed rows, then
\* render_template with disabled_dates and max_per_day.  The handler writes
\* nothing and reads the table once, so it is a single step.
mc_get ==
    /\ page' = [disabled_dates |-> DisabledDates(appointments, today),
                max_per_day |-> MAX_APPOINTMENTS_PER_DAY]
    /\ UNCHANGED <<today, appointments, wlock, txn, nreq, pc, req, fecha, total,
                   lastrowid, mails, result, checks, users, users_seq, form, password_resets>>

\* ---------------------------------------------------------- responses ----
\* Outcomes that leave the handler as an exception nothing catches:
\* sqlite3.OperationalError out of db.execute, smtplib's errors out of
\* send_email.  The application registers no error handler.
Raised == {"Busy", "Error", "PersistenceFailure"}
\* every way a POST /mis_citas ends
BookOutcomes ==
    {"InvalidDate", "PastDate", "CapacityExceeded", "Admitted", "Busy", "Error",
     "PersistenceFailure"}
\* What the caller receives: for a handled outcome the redirect to mis_citas
\* with the message flashed for it, for an exception the server's
\* internal-error response, whatever the exception was.
Response(r) == IF r \in Raised THEN "InternalServerError" ELSE r

\* ------------------------------------------------------------- clock ----
\* midnight: date.today() moves to the next day
Tick ==
    /\ today < MaxDay
    /\ today' = today + 1
    /\ UNCHANGED <<appointments, wlock, txn, nreq, pc, req, fecha, total,
                   lastrowid, mails, result, checks, page,
                   users, users_seq, form, password_resets>>

Book(w) ==
    \/ mc_request(w)
    \/ mc_validate(w)
    \/ mc_count(w)
    \/ mc_insert(w)
    \/ mc_insert_busy(w)
    \/ mc_commit(w)
    \/ mc_mail_owner(w)
    \/ mc_mail_admin(w)

AdminBook(w) ==
    \/ ac_request(w)
    \/ ac_insert(w)
    \/ ac_insert_busy(w)
    \/ ac_commit(w)
    \/ ac_mail(w)
    \/ aac_request(w)
    \/ aac_insert(w)

\* self-service booking only
NextBook == Tick \/ mc_get \/ \E w \in Workers : Book(w)
SpecBook == Init /\ [][NextBook]_vars

\* self-service booking on a store that can fail
NextFault ==
    \/ NextBook
    \/ \E w \in Workers : mc_insert_fails(w) \/ mc_commit_fails(w)
SpecFault == Init /\ [][NextFault]_vars

\* the appointment handlers that insert, next to the deletion of accounts
OwnerStep(w) ==
    \/ Book(w)
    \/ ac_request(w)
    \/ ac_insert(w)
    \/ ac_insert_busy(w)
    \/ ac_commit(w)
    \/ ac_mail(w)
    \/ admin_delete_request(w)
    \/ admin_delete(w)
    \/ admin_delete_busy(w)
NextOwners == \E w \in Workers : OwnerStep(w)
SpecOwners == Init /\ [][NextOwners]_vars

\* the handlers that write the users table, any interleaving
AccountStep(w) ==
    \/ init_db_insert(w)
    \/ auth_register_request(w)
    \/ auth_register(w)
    \/ perfil_update_request(w)
    \/ perfil_update(w)
    \/ perfil_update_write(w)
    \/ admin_users_update_request(w)
    \/ admin_users_update(w)
    \/ admin_users_update_write(w)
    \/ admin_users_role_request(w)
    \/ admin_users_role(w)
    \/ admin_delete_request(w)
    \/ admin_delete(w)
NextAccounts == \E w \in Workers : AccountStep(w)
SpecAccounts == Init /\ [][NextAccounts]_vars

\* password recovery, any interleaving
ResetStep(w) ==
    \/ auth_forgot_request(w)
    \/ auth_forgot(w)
    \/ reset_password_request(w)
    \/ reset_password(w)
    \/ reset_password_write(w)
NextReset == \E w \in Workers : ResetStep(w)
SpecReset == Init /\ [][NextReset]_vars

\* every handler, any interleaving
Next == Tick \/ mc_get \/ \E w \in Workers : Book(w) \/ AdminBook(w)
Spec == Init /\ [][Next]_vars

\* one request at a time: a worker takes a step only while every other worker
\* is between requests (the lock-timeout steps need a second open transaction
\* and cannot occur)
Alone(w) == \A v \in Workers \ {w} : pc[v] \in {"idle", "done"}
SeqStep(w) ==
    \/ mc_request(w)
    \/ mc_validate(w)
    \/ mc_count(w)
    \/ mc_insert(w)
    \/ mc_commit(w)
    \/ mc_mail_owner(w)
    \/ mc_mail_admin(w)
    \/ ac_request(w)
    \/ ac_insert(w)
    \/ ac_commit(w)
    \/ ac_mail(w)
    \/ aac_request(w)
    \/ aac_insert(w)
NextSeq == Tick \/ mc_get \/ \E w \in Workers : Alone(w) /\ SeqStep(w)
SpecSeq == Init /\ [][NextSeq]_vars

\* ============================================================ claims ====
\* w serves a Book: the view of mis_citas runs for a logged-in user
IsBook(w) == req[w].handler = "mis_citas" /\ result[w] # "LoginRequired"
\* w serves an administrative creation: the view runs for an administrator
IsAdmin(w) ==
    /\ req[w].handler \in {"admin_citas", "admin_appointments_create"}
    /\ result[w] # "Forbidden"
Rejections == {"InvalidDate", "PastDate", "CapacityExceeded"}
\* the form text denotes a calendar date in the format the booking form sends
Parsable(s) == Kind(s) \in {"iso", "loose"}
\* w has read the count and not yet made its insert visible
Deciding(w) == pc[w] \in {"mc_insert", "mc_commit"}
\* w has committed its row and is sending the notifications
Notifying(w) == pc[w] \in {"mc_mail_owner", "mc_mail_admin"}
RowsOn(d) == CountByDate(appointments, isoformat(d))

\* C1: for every date the number of persisted appointments with that date is
\* at most MAX_APPOINTMENTS_PER_DAY, whatever the interleaving of Book calls.
CapacityInvariant ==
    \A d \in Days : RowsOn(d) <= MAX_APPOINTMENTS_PER_DAY

\* C2: between a Book's COUNT read and its own committed insert no other
\* insert for that date becomes visible: the count it decided on is the number
\* of rows of that date when its insert commits.
CountInsertAtomic ==
    \A w \in Workers : Deciding(w) => total[w] = RowsOn(fecha[w])

\* C3: an administrative booking for a date whose count is already at the
\* daily maximum is rejected and writes no row.
AdminCapacityChecked ==
    \A w \in Workers :
        (IsAdmin(w) /\ pc[w] = "done" /\ lastrowid[w] # 0
            /\ Kind(appointments[lastrowid[w]].fecha) = "iso")
        => CountByDate(appointments, appointments[lastrowid[w]].fecha)
               <= MAX_APPOINTMENTS_PER_DAY

\* w is a finished Book that read the count while at most the daily maximum
\* of Books had read the count for its date
AmongFirst(w) ==
    /\ IsBook(w) /\ pc[w] = "done" /\ total[w] # None
    /\ checks[fecha[w]] <= MAX_APPOINTMENTS_PER_DAY
\* w's request left one committed row, for its own date and user
Persisted(w) ==
    /\ lastrowid[w] \in 1..Len(appointments)
    /\ appointments[lastrowid[w]] =
          [id |-> lastrowid[w], user_id |-> req[w].uid,
           fecha |-> isoformat(fecha[w]), estado |-> "Agendada"]
\* a Book that reads the count of a full date ends with CapacityExceeded and
\* writes nothing
FullDateRejected ==
    \A w \in Workers :
        (pc[w] = "mc_count" /\ pc'[w] # "mc_count"
            /\ RowsOn(fecha[w]) >= MAX_APPOINTMENTS_PER_DAY)
        => /\ pc'[w] = "done"
           /\ result'[w] = "CapacityExceeded"
           /\ appointments' = appointments
           /\ txn' = txn

\* C4 as stated: the first dailyMax Book attempts for a date without
\* appointments all persist one row, and a later attempt that finds the date
\* full is rejected with CapacityExceeded.
AdmitUntilFullAllSucceed ==
    \A w \in Workers :
        /\ AmongFirst(w) => Persisted(w)
        /\ (IsBook(w) /\ pc[w] = "done" /\ total[w] # None
               /\ total[w] >= MAX_APPOINTMENTS_PER_DAY)
           => result[w] = "CapacityExceeded"

\* C4 (amended): each of the first dailyMax Book attempts for a date without
\* appointments either persists one row or fails on the database write lock
\* (Busy) having written nothing, and none of them is rejected for capacity;
\* an attempt that reads the count once the date holds dailyMax rows is
\* rejected with CapacityExceeded.
AdmitUntilFull ==
    /\ [](\A w \in Workers :
            AmongFirst(w) =>
                \/ Persisted(w) /\ result[w] \in {"Admitted", "Error"}
                \/ result[w] = "Busy" /\ lastrowid[w] = 0)
    /\ [][FullDateRejected]_vars

\* C4 witness: two overlapping Books of an empty date were both admitted (the
\* second read count 0 and got row 2) and a third found the date full.
AdmitUntilFullReached ==
    \E w, v \in Workers :
        /\ w # v /\ IsBook(w) /\ IsBook(v) /\ fecha[w] = fecha[v]
        /\ pc[v] = "done" /\ result[v] = "Admitted" /\ total[v] = 0 /\ lastrowid[v] = 2
        /\ pc[w] = "done" /\ result[w] = "CapacityExceeded"
        /\ total[w] = MAX_APPOINTMENTS_PER_DAY

\* C5: for a fixed date the Books that get past the capacity check are exactly
\* the first dailyMax to perform the count for that date; every later one is
\* rejected and none of the first dailyMax is rejected for capacity.
OrderingGuarantee ==
    [][\A w \in Workers :
          (pc[w] = "mc_count" /\ pc'[w] # "mc_count")
          => (checks[fecha[w]] < MAX_APPOINTMENTS_PER_DAY <=> pc'[w] = "mc_insert")]_vars

\* C6: a Book whose parsed date is strictly before the current date ends with
\* PastDate whatever the count for that date, and persists no row.
NoPastDateAdmission ==
    /\ [](\A w \in Workers :
            (IsBook(w) /\ result[w] = "PastDate")
            => pc[w] = "done" /\ lastrowid[w] = 0 /\ txn[w] = <<>>)
    /\ [][\A w \in Workers :
            (pc[w] = "mc_validate" /\ pc'[w] # "mc_validate"
                /\ Parsable(req[w].fecha) /\ Day(req[w].fecha) < today)
            => /\ pc'[w] = "done"
               /\ result'[w] = "PastDate"
               /\ appointments' = appointments]_vars

\* C6 witness: a Book was rejected with PastDate for a date with free capacity.
PastDateRejectedWithCapacity ==
    \E w \in Workers :
        /\ IsBook(w) /\ pc[w] = "done" /\ result[w] = "PastDate"
        /\ fecha[w] < today
        /\ RowsOn(fecha[w]) < MAX_APPOINTMENTS_PER_DAY

\* C7: a Book with an unparsable date ends with InvalidDate and one with a past
\* date with PastDate, in both cases before the count is read and without an
\* insert.
ValidationPrecedesStore ==
    \A w \in Workers :
        /\ (IsBook(w) /\ pc[w] # "mc_validate" /\ ~Parsable(req[w].fecha))
           => pc[w] = "done" /\ result[w] = "InvalidDate"
        /\ (IsBook(w) /\ result[w] \in {"InvalidDate", "PastDate"})
           => total[w] = None /\ lastrowid[w] = 0 /\ txn[w] = <<>> /\ wlock # w

\* C7 witness: one Book ended with InvalidDate and another with PastDate while
\* the table held rows, and neither read the count.
ValidationRejectionsReached ==
    \E w, v \in Workers :
        /\ IsBook(w) /\ result[w] = "InvalidDate" /\ total[w] = None
        /\ IsBook(v) /\ result[v] = "PastDate" /\ total[v] = None
        /\ appointments # <<>>

\* C8: an administrative creation with a missing, malformed or past date is
\* rejected and writes no row, so every persisted appointment has a
\* well-formed date.
AdminDateValidated ==
    /\ \A w \in Workers :
          (IsAdmin(w) /\ pc[w] = "done" /\ ~Parsable(req[w].fecha))
          => lastrowid[w] = 0
    /\ \A i \in 1..Len(appointments) : Parsable(appointments[i].fecha)

\* C9: with no concurrent activity a Book of a valid, non-past date persists
\* exactly one row iff the current count of its date is below the daily
\* maximum, and is otherwise rejected with CapacityExceeded.
DecisionRule ==
    \A w \in Workers :
        /\ (IsBook(w) /\ Deciding(w)) => total[w] = RowsOn(fecha[w])
        /\ (IsBook(w) /\ Notifying(w)) => RowsOn(fecha[w]) = total[w] + 1
        /\ (IsBook(w) /\ pc[w] = "done" /\ total[w] # None)
           => /\ total[w] < MAX_APPOINTMENTS_PER_DAY <=> Persisted(w)
              /\ total[w] >= MAX_APPOINTMENTS_PER_DAY
                 <=> (result[w] = "CapacityExceeded" /\ lastrowid[w] = 0)

\* C9 witness: a Book that found dailyMax - 1 rows was admitted and one that
\* found dailyMax rows was rejected.
DecisionBoundaryReached ==
    \E w, v \in Workers :
        /\ IsBook(w) /\ pc[w] = "done" /\ result[w] = "Admitted"
        /\ total[w] = MAX_APPOINTMENTS_PER_DAY - 1
        /\ IsBook(v) /\ pc[v] = "done" /\ result[v] = "CapacityExceeded"
        /\ total[v] = MAX_APPOINTMENTS_PER_DAY

\* C10: a Book that returns a rejection has inserted no row, holds no
\* transaction and has sent no notification, and the step that rejects leaves
\* the appointment rows as they were.
RejectLeavesStoreUnchanged ==
    /\ [](\A w \in Workers :
            (IsBook(w) /\ result[w] \in Rejections)
            => lastrowid[w] = 0 /\ txn[w] = <<>> /\ wlock # w /\ mails[w] = {})
    /\ [][\A w \in Workers :
            (result'[w] \in Rejections /\ result[w] \notin Rejections)
            => appointments' = appointments /\ txn' = txn /\ mails' = mails]_vars

\* C10 witness: a Book was rejected for capacity while the table held rows of
\* its date.
CapacityRejectionReached ==
    \E w \in Workers :
        /\ IsBook(w) /\ pc[w] = "done" /\ result[w] = "CapacityExceeded"
        /\ RowsOn(fecha[w]) >= MAX_APPOINTMENTS_PER_DAY
        /\ mails[w] = {}

\* ------------------------------------------------------ notifications ----
\* w's Book inserted and committed a row
Committed(w) == IsBook(w) /\ lastrowid[w] # 0 /\ (Notifying(w) \/ pc[w] = "done")
\* the owner of w's Book has an address on file
OwnerHasEmail(w) == UserById(req[w].uid).email # ""
\* send_email raised while sending the owner's message: the handler ended with
\* the exception before the owner's message was delivered
OwnerSendFailed(w) ==
    result[w] = "Error" /\ OwnerHasEmail(w) /\ "owner" \notin mails[w]
\* the handler reached send_email(ADMIN_EMAIL, ...)
AdminSendAttempted(w) ==
    "admin" \in mails[w] \/ (result[w] = "Error" /\ ~OwnerSendFailed(w))

\* C11: if send_email raises for either message of an admitted Book, the row
\* that Book inserted stays persisted and counted for its date.
NotificationFailureKeepsBooking ==
    /\ [](\A w \in Workers :
            (IsBook(w) /\ result[w] = "Error")
            => Persisted(w) /\ RowsOn(fecha[w]) >= 1)
    /\ [][\A w \in Workers :
            (IsBook(w) /\ Notifying(w) /\ result'[w] = "Error")
            => appointments' = appointments]_vars

\* C11 witness: the notification of the Book that inserted row 1 failed, and a
\* later Book of the same date counted that row.
FailedNotificationRowCounted ==
    \E w, v \in Workers :
        /\ w # v /\ IsBook(w) /\ IsBook(v) /\ fecha[w] = fecha[v]
        /\ result[w] = "Error" /\ lastrowid[w] = 1 /\ Persisted(w)
        /\ total[v] = 1

\* C12: an admitted Book returns the success outcome whether or not the
\* notification transport fails; a transport failure never becomes the result.
NotificationFailureNeverSurfaced ==
    \A w \in Workers : (Committed(w) /\ pc[w] = "done") => result[w] = "Admitted"

\* C13: an admitted Book sends the owner's message exactly when the owner has
\* an address and the administrator's message exactly when ADMIN_EMAIL is set;
\* a missing address skips only that message, and a failed or absent owner
\* message does not prevent the administrator's message.
NotificationFanOut ==
    \A w \in Workers :
        (Committed(w) /\ pc[w] = "done")
        => /\ ~OwnerHasEmail(w) => "owner" \notin mails[w] /\ ~OwnerSendFailed(w)
           /\ OwnerHasEmail(w) => "owner" \in mails[w] \/ OwnerSendFailed(w)
           /\ ADMIN_EMAIL # "" <=> AdminSendAttempted(w)

\* C14: a Book's notifications are sent only after its insert is committed and
\* the write lock released, so a worker that times out on the lock is never
\* waiting for a notifying Book.
NotifyAfterCommit ==
    /\ [](\A w \in Workers :
            (IsBook(w) /\ (Notifying(w) \/ mails[w] # {}))
            => Persisted(w) /\ txn[w] = <<>> /\ wlock # w)
    /\ [][\A v \in Workers :
            (result'[v] = "Busy" /\ result[v] # "Busy")
            => wlock # 0 /\ ~Notifying(wlock)]_vars

\* C14 witness: while the Book that committed row 1 is sending its
\* notifications, another Book of the same date has counted that row and
\* taken the write lock.
InsertDuringNotification ==
    \E w, v \in Workers :
        /\ w # v /\ IsBook(w) /\ IsBook(v) /\ fecha[w] = fecha[v]
        /\ Notifying(w) /\ lastrowid[w] = 1
        /\ pc[v] = "mc_commit" /\ total[v] = 1 /\ wlock = v

\* C15: an admitted Book has returned its result to the caller by the time the
\* notification transport is at work, so a slow transport cannot delay it.
NotifierAsynchronous ==
    \A w \in Workers : (IsBook(w) /\ Notifying(w)) => result[w] # "none"

\* ------------------------------------------------------- availability ----
\* the dates from today to today + 30 days that hold at least the daily
\* maximum of appointments, as Book counts them
FullDatesInWindow ==
    {isoformat(d) : d \in {e \in Days : /\ today <= e
                                        /\ e <= today + HORIZON_DAYS
                                        /\ RowsOn(e) >= MAX_APPOINTMENTS_PER_DAY}}

\* C16: the disabled dates GET /mis_citas computes are exactly the dates d with
\* today <= d <= today + 30 whose count at query time is at least the daily
\* maximum, and the page carries the configured daily maximum.
AvailabilityQueryCorrect ==
    [][mc_get => page' = [disabled_dates |-> FullDatesInWindow,
                          max_per_day |-> MAX_APPOINTMENTS_PER_DAY]]_vars

\* C17: the capacity decision of a Book rests only on the count read in that
\* call, never on a page rendered earlier; a Book whose date the last page
\* reported as disabled is rejected with CapacityExceeded by its own count.
AvailabilityAdvisoryOnly ==
    [][\A w \in Workers :
          (pc[w] = "mc_count" /\ pc'[w] # "mc_count")
          => /\ total'[w] = RowsOn(fecha[w])
             /\ (pc'[w] = "done" /\ result'[w] = "CapacityExceeded")
                   <=> total'[w] >= MAX_APPOINTMENTS_PER_DAY
             /\ isoformat(fecha[w]) \in page.disabled_dates
                   => result'[w] = "CapacityExceeded"]_vars

\* C17 witness: a Book of a date the page reports as disabled was rejected for
\* capacity after reading the count itself.
DisabledDateRejectedByCount ==
    \E w \in Workers :
        /\ IsBook(w) /\ pc[w] = "done" /\ result[w] = "CapacityExceeded"
        /\ total[w] >= MAX_APPOINTMENTS_PER_DAY
        /\ isoformat(fecha[w]) \in page.disabled_dates

\* -------------------------------------------------------- contention ----
\* C18: two Books of different dates never contend: a Book fails on the write
\* lock only when the connection holding the lock is writing a row of the
\* same date.
IndependenceAcrossDates ==
    [][\A w \in Workers :
          (IsBook(w) /\ result'[w] = "Busy" /\ result[w] # "Busy")
          => wlock # 0 /\ txn[wlock][1].fecha = isoformat(fecha[w])]_vars

\* C19: a Book that cannot take the write lock within the timeout ends with a
\* Busy result the caller receives as an outcome of its own, told apart from
\* CapacityExceeded and from every other outcome, and has written no row.
BusyIsTypedOutcome ==
    \A w \in Workers :
        (IsBook(w) /\ result[w] = "Busy")
        => /\ pc[w] = "done" /\ lastrowid[w] = 0 /\ txn[w] = <<>>
           /\ \A r \in BookOutcomes \ {"Busy"} : Response(r) # Response("Busy")

\* C20: the row an admitted Book creates has status "Agendada" and the
\* session's user as owner, whatever the form carried.
InitialStatusScheduled ==
    /\ [](\A w \in Workers :
            (IsBook(w) /\ lastrowid[w] # 0)
            => IF pc[w] = "mc_commit"
               THEN /\ Len(txn[w]) = 1
                    /\ txn[w][1].estado = "Agendada"
                    /\ txn[w][1].user_id = req[w].uid
               ELSE Persisted(w))
    /\ [][\A i \in 1..Len(appointments') :
            (i > Len(appointments) /\ wlock # 0 /\ IsBook(wlock))
            => /\ appointments'[i].estado = "Agendada"
               /\ appointments'[i].user_id = req[wlock].uid]_vars

\* C20 witness: a Book whose form named the status "Cancelada" and another
\* user's id was admitted, and its row is "Agendada" and owned by the session's
\* user.
FormStatusIgnored ==
    \E w \in Workers :
        /\ IsBook(w) /\ pc[w] = "done" /\ result[w] = "Admitted"
        /\ req[w].estado = "Cancelada" /\ req[w].user_id # req[w].uid
        /\ appointments[lastrowid[w]].estado = "Agendada"
        /\ appointments[lastrowid[w]].user_id = req[w].uid

\* ------------------------------------------- administrative creation ----
\* C23: admin_appointments_create called by an administrator with an existing
\* user_id persists one appointment row for that user and reports it as
\* created; its INSERT is accepted by the appointments table.
AdminCreatePersists ==
    \A w \in Workers :
        (req[w].handler = "admin_appointments_create" /\ pc[w] = "done"
            /\ result[w] # "Forbidden" /\ req[w].user_id \in UserIds)
        => /\ result[w] = "Created"
           /\ lastrowid[w] \in 1..Len(appointments)
           /\ appointments[lastrowid[w]].user_id = req[w].user_id

\* ------------------------------------------------------ storage faults ----
PersistenceFailures == {"PersistenceFailure", "Busy"}

\* C21: if the insert or the commit of a Book fails, no row of that attempt is
\* or becomes visible: the failing step leaves the committed rows and every
\* per-date count as they were, and the attempt keeps no open transaction.
NoPartialWrite ==
    /\ [](\A w \in Workers :
            (IsBook(w) /\ result[w] \in PersistenceFailures)
            => pc[w] = "done" /\ txn[w] = <<>> /\ wlock # w)
    /\ [][\A w \in Workers :
            (result'[w] \in PersistenceFailures /\ result[w] \notin PersistenceFailures)
            => /\ appointments' = appointments
               /\ \A d \in Days : RowsOn(d)' = RowsOn(d)]_vars

\* C21 witness: the commit of the Book that had inserted row 1 failed, and
\* another Book of the same date then found the id free and was admitted
\* with it.
FailedCommitLeftNoRow ==
    \E w, v \in Workers :
        /\ w # v /\ IsBook(w) /\ IsBook(v) /\ fecha[w] = fecha[v]
        /\ result[w] = "PersistenceFailure" /\ lastrowid[w] = 1
        /\ result[v] = "Admitted" /\ lastrowid[v] = 1 /\ total[v] = 0
        /\ RowsOn(fecha[v]) = 1

\* ------------------------------------------------------ authorisation ----
\* C25: a POST to mis_citas from a session without an account is turned away
\* before the view: it reads no count, inserts no row and sends no
\* notification; admin_citas and admin_appointments_create insert nothing for
\* a session whose user is not an administrator.
AuthenticationGate ==
    \A w \in Workers :
        /\ (req[w].handler = "mis_citas" /\ current_user(users, req[w].uid) = {})
           => /\ pc[w] = "done" /\ result[w] = "LoginRequired"
              /\ total[w] = None /\ lastrowid[w] = 0 /\ txn[w] = <<>>
              /\ mails[w] = {}
        /\ (/\ req[w].handler \in {"admin_citas", "admin_appointments_create"}
            /\ \A u \in current_user(users, req[w].uid) : u.role # "admin")
           => /\ pc[w] = "done" /\ result[w] = "Forbidden"
              /\ lastrowid[w] = 0 /\ txn[w] = <<>> /\ mails[w] = {}

\* C25 witness: a client that is not logged in posted a bookable date to
\* mis_citas and an ordinary user posted an appointment to admin_citas; both
\* were turned away and the table is empty.
TurnedAwayAtTheGate ==
    \E w, v \in Workers :
        /\ req[w].handler = "mis_citas" /\ req[w].uid = 0
        /\ result[w] = "LoginRequired" /\ ~IsPast(Day(req[w].fecha), today)
        /\ req[v].handler = "admin_citas" /\ req[v].uid = 2
        /\ result[v] = "Forbidden"
        /\ appointments = <<>>

\* ------------------------------------------------------- append-only ----
\* C22: appointment rows are append-only: no step of any handler removes a
\* row or changes the id, owner, date or status of an existing row, so the
\* count of every date never decreases and a full date stays full.
AppendOnly ==
    [][/\ Len(appointments') >= Len(appointments)
       /\ \A i \in 1..Len(appointments) : appointments'[i] = appointments[i]
       /\ \A d \in Days :
            /\ RowsOn(d)' >= RowsOn(d)
            /\ CapacityFull(RowsOn(d)) => CapacityFull(RowsOn(d)')]_vars

\* C22 witness: an account that owns an appointment on a full date was
\* deleted by admin_delete; the row is still there and the date still full.
OwnerDeletedRowKept ==
    \E w \in Workers, i \in 1..Len(appointments), d \in Days :
        /\ req[w].handler = "admin_delete" /\ result[w] = "Deleted"
        /\ form[w].what = "user" /\ form[w].id = appointments[i].user_id
        /\ current_user(users, form[w].id) = {}
        /\ appointments[i].fecha = isoformat(d)
        /\ CapacityFull(RowsOn(d))

\* -------------------------------------------------- owner of a row ----
\* C24: every persisted appointment's user_id is the id of an account that
\* exists.
OwnerReferentialIntegrity ==
    \A i \in 1..Len(appointments) :
        current_user(users, appointments[i].user_id) # {}

\* ---------------------------------------------------------- accounts ----
\* C27: after any sequence of admin_delete, admin_users_role,
\* admin_users_update and perfil_update requests, each preceded by init_db,
\* at least one account has the role admin.
AdministratorRemains == \E u \in users : u.role = "admin"

\* C28: no two accounts share a username, under any interleaving of
\* auth_register, perfil_update, admin_users_update and the default-admin
\* creation of init_db.
UsernameUnique == \A u, v \in users : u.username = v.username => u = v

\* C28 witness: a perfil_update and an admin_users_update asked for the same
\* name for two accounts, both passed the "already exists" SELECT, the first
\* wrote the name and the second was rejected at its UPDATE.
ConcurrentRenameRejected ==
    \E w, v \in Workers :
        /\ req[w].handler = "perfil_update" /\ result[w] = "Updated"
        /\ req[v].handler = "admin_users_update" /\ result[v] = "NotUpdated"
        /\ req[w].uid # form[v].id
        /\ strip(form[w].username) = strip(form[v].username)
        /\ \E u \in users : u.id = req[w].uid /\ u.username = strip(form[w].username)

\* ---------------------------------------------------- reset tokens ----
\* C26: a password-reset token is single-use: no two reset_password POSTs
\* change a password with the same token, and a step that changes a password
\* is taken only while the token's used flag is 0.
TokenSingleUse ==
    /\ [](\A w, v \in Workers :
            (/\ w # v
             /\ req[w].handler = "reset_password" /\ result[w] = "PasswordChanged"
             /\ req[v].handler = "reset_password" /\ result[v] = "PasswordChanged")
            => form[w].token # form[v].token)
    /\ [][\A w \in Workers :
            (pc[w] = "reset_password_write" /\ pc'[w] = "done")
            => password_resets[form[w].token].used = 0]_vars

====
